---- MODULE Spec2Model ----
(***************************************************************************)
(* Model of the phone number generator (src/app.py): the number generation *)
(* engine (NumberGenerator), the artifact store with the partitioner       *)
(* (FileManager.split_file_for_download) and the /api/generate handler.    *)
(*                                                                         *)
(* A str is the sequence of its code points ("138" is <<49, 51, 56>>), so  *)
(* that concatenation is \o, Python's comparison of str is the             *)
(* lexicographic order StrLess, and the utf-8 length of a text is computed *)
(* from its characters.                                                    *)
(***************************************************************************)
EXTENDS Integers, Sequences, FiniteSets, TLC

VARIABLES
    db,     \* the rows of the phone_location table, in table order
    cfg,    \* the configuration: generator.max_count,
            \* generator.file_size_limit, download.expire_hours
    files,  \* the download directory: entry name -> [data, mtime, isfile]
    clock,  \* the wall clock, in seconds
    nreq,   \* requests handled so far
    op,     \* the operation that acted last
    req,    \* its arguments
    res,    \* what it returned
    inflight, \* the /api/generate requests being served concurrently:
              \* request -> [pc, data, filename, count, size_str, resp]
    session \* the Flask session of each client: client ->
            \* [logged_in, username]

vars == <<db, cfg, files, clock, nreq, op, req, res, inflight, session>>

(***************************************************************************)
(* Bounds of the model.                                                    *)
(***************************************************************************)
\* rows of the phone_location table
MaxRows == 2
\* lines of an artifact that is in the store from the start
MaxLines == 4
\* the bytes of one MB (1024 * 1024 in split_file_for_download and
\* api_generate) and the line ceiling of one partition (500000 in
\* split_file_for_download), scaled down so that artifacts of a few lines
\* reach them
BytesPerMB == 8
BatchLines == 3
\* requests the server handles, and seconds the clock advances
MaxRequests == 1
MaxClock == 1

\* Python's None: a value that is no string (code points are >= 0)
None == <<-1>>

\* code points
NL == 10
SP == 32
D(d) == 48 + d
DigitChars == 48..57

\* Python truth of an optional str or list: None and the empty one are false
Truthy(s) == s # None /\ s # <<>>

(***************************************************************************)
(* Strings.                                                                *)
(***************************************************************************)
\* a < b in Python's comparison of str: lexicographic by code point, a
\* proper prefix is smaller
RECURSIVE StrLessFrom(_, _, _)
StrLessFrom(a, b, k) ==
    IF k > Len(b) THEN FALSE
    ELSE IF k > Len(a) THEN TRUE
    ELSE IF a[k] # b[k] THEN a[k] < b[k]
    ELSE StrLessFrom(a, b, k + 1)

StrLess(a, b) == StrLessFrom(a, b, 1)

\* str(n) for a non-negative integer: its decimal digits, most significant
\* first, "0" for zero
RECURSIVE Str(_)
Str(n) == IF n < 10 THEN <<D(n)>> ELSE Str(n \div 10) \o <<D(n % 10)>>

\* s.zfill(width): pad with "0" on the left up to width, longer strings are
\* left alone
zfill_none(s, width) == s

RECURSIVE zfill(_, _)
zfill(s, width) == IF Len(s) >= width THEN s ELSE zfill(<<D(0)>> \o s, width)

(***************************************************************************)
(* list(set(xs)) followed by list.sort(): the elements of the set in       *)
(* ascending str order.  Computed by most-significant-character buckets:   *)
(* among the strings that agree on their first k-1 characters, the one     *)
(* that ends there comes first, then the others by their k-th character.   *)
(***************************************************************************)
RECURSIVE SortFrom(_, _)
RECURSIVE SortBuckets(_, _, _)
SortBuckets(S, k, chars) ==
    IF chars = {} THEN <<>>
    ELSE LET c == CHOOSE x \in chars : \A y \in chars : x <= y
         IN  SortFrom({s \in S : s[k] = c}, k + 1)
                 \o SortBuckets(S, k, chars \ {c})

SortFrom(S, k) ==
    IF S = {} THEN <<>>
    ELSE LET ended == {s \in S : Len(s) < k}
             rest  == S \ ended
         IN  (IF ended = {} THEN <<>> ELSE <<CHOOSE s \in ended : TRUE>>)
                 \o SortBuckets(rest, k, {s[k] : s \in rest})

\* set(xs)
set(xs) == {xs[i] : i \in 1..Len(xs)}

\* sorted list of a set of strings
sort(S) == SortFrom(S, 1)

(***************************************************************************)
(* DatabaseManager.query_phone_locations: the rows of phone_location that  *)
(* match prefix, province and city, and one of the operators when a        *)
(* non-empty operator list is given; in table order.                       *)
(***************************************************************************)
RECURSIVE SelectSeq2(_, _, _, _, _)
SelectSeq2(rows, prefix, province, city, operators) ==
    IF rows = <<>> THEN <<>>
    ELSE LET r == Head(rows)
             m == /\ r.prefix = prefix
                  /\ r.province = province
                  /\ r.city = city
                  /\ (Truthy(operators) =>
                        \E i \in 1..Len(operators) :
                            operators[i] = r.operator)
         IN  (IF m THEN <<r>> ELSE <<>>)
                 \o SelectSeq2(Tail(rows), prefix, province, city, operators)

query_phone_locations(prefix, province, city, operators) ==
    SelectSeq2(db, prefix, province, city, operators)

(***************************************************************************)
(* NumberGenerator._generate_numbers_for_location                          *)
(***************************************************************************)
\* the range of the full expansion, range(10000), and the width of zfill(4)
LocalRange == 10000
LocalWidth == 4

\* variants with a slip: the 3-digit branch tested first; the leading digit
\* drawn from "123456789"
generate_numbers_for_location_3first(prefix, suffix, suffix_4, suffix_3) ==
    IF Truthy(suffix_3)
    THEN [d \in 1..10 |-> prefix \o suffix \o <<D(d - 1)>> \o suffix_3]
    ELSE IF Truthy(suffix_4)
    THEN <<prefix \o suffix \o suffix_4>>
    ELSE [i \in 1..LocalRange |->
              prefix \o suffix \o zfill(Str(i - 1), LocalWidth)]

generate_numbers_for_location_9(prefix, suffix, suffix_4, suffix_3) ==
    IF Truthy(suffix_4)
    THEN <<prefix \o suffix \o suffix_4>>
    ELSE IF Truthy(suffix_3)
    THEN [d \in 1..9 |-> prefix \o suffix \o <<D(d)>> \o suffix_3]
    ELSE [i \in 1..LocalRange |->
              prefix \o suffix \o zfill(Str(i - 1), LocalWidth)]

generate_numbers_for_location(prefix, suffix, suffix_4, suffix_3) ==
    IF Truthy(suffix_4)
    THEN <<prefix \o suffix \o suffix_4>>
    ELSE IF Truthy(suffix_3)
    THEN [d \in 1..10 |-> prefix \o suffix \o <<D(d - 1)>> \o suffix_3]
    ELSE [i \in 1..LocalRange |->
              prefix \o suffix \o zfill(Str(i - 1), LocalWidth)]

(***************************************************************************)
(* NumberGenerator.generate_numbers                                        *)
(***************************************************************************)
RECURSIVE ExtendAll(_, _, _, _)
ExtendAll(locations, prefix, suffix, suffix_3) ==
    IF locations = <<>> THEN <<>>
    ELSE generate_numbers_for_location(prefix, Head(locations).suffix,
                                       suffix, suffix_3)
             \o ExtendAll(Tail(locations), prefix, suffix, suffix_3)

\* variants with a slip: no sort after the dedup (the set is listed in
\* descending order); no dedup before the sort
Reverse(xs) == [i \in 1..Len(xs) |-> xs[Len(xs) + 1 - i]]

generate_numbers_nosort(prefix, suffix, suffix_3, province, city, operators) ==
    LET locations == query_phone_locations(prefix, province, city, operators)
    IN  IF locations = <<>> THEN <<>>
        ELSE Reverse(sort(set(ExtendAll(locations, prefix, suffix, suffix_3))))

generate_numbers_nodedup(prefix, suffix, suffix_3, province, city, operators) ==
    LET locations == query_phone_locations(prefix, province, city, operators)
    IN  IF locations = <<>> THEN <<>>
        ELSE LET all == ExtendAll(locations, prefix, suffix, suffix_3)
                 uniq == sort(set(all))
             IN  uniq \o SubSeq(uniq, 1, Len(all) - Len(uniq))

generate_numbers(prefix, suffix, suffix_3, province, city, operators) ==
    LET locations == query_phone_locations(prefix, province, city, operators)
    IN  IF locations = <<>> THEN <<>>
        ELSE sort(set(ExtendAll(locations, prefix, suffix, suffix_3)))

(***************************************************************************)
(* Text files.  A file of the download directory is the text written to    *)
(* it; its size is the length of the utf-8 encoding of the text.           *)
(***************************************************************************)
\* the bytes of one character in utf-8
Utf8Bytes(c) ==
    IF c < 128 THEN 1 ELSE IF c < 2048 THEN 2 ELSE IF c < 65536 THEN 3 ELSE 4

\* len(text.encode('utf-8')): the bytes of the characters lo..hi, by halves
RECURSIVE Utf8LenRange(_, _, _)
Utf8LenRange(text, lo, hi) ==
    IF lo > hi THEN 0
    ELSE IF lo = hi THEN Utf8Bytes(text[lo])
    ELSE LET mid == (lo + hi) \div 2
         IN  Utf8LenRange(text, lo, mid) + Utf8LenRange(text, mid + 1, hi)

Utf8Len(text) == Utf8LenRange(text, 1, Len(text))

\* os.path.getsize
getsize(fs, name) == Utf8Len(fs[name].data)

\* f.readline() at position pos: the text up to and including the next
\* newline, the rest of the file when there is none, "" at the end of file
RECURSIVE LineEnd(_, _)
LineEnd(data, i) ==
    IF i >= Len(data) THEN Len(data)
    ELSE IF data[i] = NL THEN i
    ELSE LineEnd(data, i + 1)

readline(data, pos) ==
    IF pos > Len(data) THEN <<>> ELSE SubSeq(data, pos, LineEnd(data, pos))

\* the texts of a sequence, one after the other
RECURSIVE Cat(_)
Cat(texts) == IF texts = <<>> THEN <<>> ELSE Head(texts) \o Cat(Tail(texts))

\* a variant with a slip: a newline added after each line, as print would
RECURSIVE writelines_nl(_)
writelines_nl(lines) ==
    IF lines = <<>> THEN <<>>
    ELSE Head(lines) \o <<NL>> \o writelines_nl(Tail(lines))

\* the text f.writelines(lines) writes
RECURSIVE writelines(_)
writelines(lines) ==
    IF lines = <<>> THEN <<>> ELSE Head(lines) \o writelines(Tail(lines))

\* open(path, 'w') ... close: the file holds data, written at time now
WriteFile(fs, name, data, now) ==
    [n \in (DOMAIN fs) \cup {name} |->
        IF n = name THEN [data |-> data, mtime |-> now, isfile |-> TRUE]
        ELSE fs[n]]

(***************************************************************************)
(* NumberGenerator._format_file_size: f"{size:.2f} {unit}" after dividing  *)
(* by 1024 once per unit passed.  A byte count is an unbounded integer of  *)
(* Python; it is held here as its digits in base 1024, the least           *)
(* significant first (the last digit is not limited), so that a division   *)
(* by 1024 moves the point by one digit and the value at a unit is exact,  *)
(* as it is in the program for every size below 2^53.  .2f rounds the      *)
(* value to hundredths, a tie to the even one.                             *)
(***************************************************************************)
\* "B", "KB", "MB", "GB"; "TB"
Units == <<(<<66>>), <<75, 66>>, <<77, 66>>, <<71, 66>>>>
UnitTB == <<84, 66>>

\* the base-1024 digits of a byte count below 2^31
Limbs(n) ==
    <<n % 1024, (n \div 1024) % 1024, (n \div (1024 * 1024)) % 1024,
      n \div (1024 * 1024 * 1024)>>

Limb(size, i) == IF i <= Len(size) THEN size[i] ELSE 0

\* the integer part of size / 1024^(i-1)
RECURSIVE HighPart(_, _)
HighPart(size, i) ==
    IF i > Len(size) THEN 0 ELSE size[i] + 1024 * HighPart(size, i + 1)

\* 100 times the fraction whose base-1024 digits are the first k digits of
\* size: the digits of the product's fraction and its integer part (carry)
RECURSIVE Times100(_, _, _, _)
Times100(size, k, i, carry) ==
    IF i > k THEN [digits |-> <<>>, carry |-> carry]
    ELSE LET t    == 100 * Limb(size, i) + carry
             rest == Times100(size, k, i + 1, t \div 1024)
         IN  [digits |-> <<t % 1024>> \o rest.digits, carry |-> rest.carry]

\* 100 * size / 1024^k rounded to an integer, a tie to the even one
RoundHalfEven(size, k) ==
    LET m    == Times100(size, k, 1, 0)
        q    == 100 * HighPart(size, k + 1) + m.carry
        top  == IF k = 0 THEN 0 ELSE m.digits[k]
        rest == \E i \in 1..(k - 1) : m.digits[i] # 0
    IN  IF top > 512 \/ (top = 512 /\ rest) THEN q + 1
        ELSE IF top = 512 THEN q + (q % 2)
        ELSE q

\* f"{size / 1024^k:.2f}"
Fixed2(size, k) ==
    LET h == RoundHalfEven(size, k)
    IN  Str(h \div 100) \o <<46>> \o zfill(Str(h % 100), 2)

\* a variant with a slip: a value of exactly 1024 stays at its unit
RECURSIVE FormatFrom_le(_, _)
FormatFrom_le(size, k) ==
    IF k >= Len(Units) THEN Fixed2(size, k) \o <<SP>> \o UnitTB
    ELSE IF \/ \A i \in (k + 2)..Len(size) : size[i] = 0
            \/ /\ Limb(size, k + 2) = 1
               /\ \A i \in 1..Len(size) : i # k + 2 => size[i] = 0
    THEN Fixed2(size, k) \o <<SP>> \o Units[k + 1]
    ELSE FormatFrom_le(size, k + 1)

\* the loop from the unit reached after k divisions: "size < 1024" holds
\* when no digit above the (k+1)-th is set
RECURSIVE FormatFrom(_, _)
FormatFrom(size, k) ==
    IF k >= Len(Units) THEN Fixed2(size, k) \o <<SP>> \o UnitTB
    ELSE IF \A i \in (k + 2)..Len(size) : size[i] = 0
    THEN Fixed2(size, k) \o <<SP>> \o Units[k + 1]
    ELSE FormatFrom(size, k + 1)

\* _format_file_size of a byte count given by its digits, and of a file
\* size of the download directory
format_file_size_of(size) == FormatFrom(size, 0)

format_file_size(size) == format_file_size_of(Limbs(size))

(***************************************************************************)
(* FileManager.split_file_for_download                                     *)
(***************************************************************************)
\* "part_", "_", "/download/"
S_part == <<112, 97, 114, 116, 95>>
S_us == <<95>>
S_download == <<47, 100, 111, 119, 110, 108, 111, 97, 100, 47>>

\* an entry of the returned list
FileEntry(name, size_str) ==
    [name |-> name, size |-> size_str, url |-> S_download \o name]

\* a variant with a slip: the batch is closed when the byte budget is
\* exceeded, not when it is reached
RECURSIVE ReadBatch_gt(_, _, _, _, _, _)
ReadBatch_gt(data, pos, count, lines, current_size, max_size) ==
    IF count = BatchLines THEN [lines |-> lines, pos |-> pos]
    ELSE LET line == readline(data, pos)
         IN  IF line = <<>> THEN [lines |-> lines, pos |-> pos]
             ELSE LET lines2 == Append(lines, line)
                      size2  == current_size + Utf8Len(line)
                      pos2   == pos + Len(line)
                  IN  IF size2 > max_size
                      THEN [lines |-> lines2, pos |-> pos2]
                      ELSE ReadBatch_gt(data, pos2, count + 1, lines2, size2,
                                        max_size)

\* a variant with a slip: the batch has no line ceiling
RECURSIVE ReadBatch_nocap(_, _, _, _, _, _)
ReadBatch_nocap(data, pos, count, lines, current_size, max_size) ==
    LET line == readline(data, pos)
    IN  IF line = <<>> THEN [lines |-> lines, pos |-> pos]
        ELSE LET lines2 == Append(lines, line)
                 size2  == current_size + Utf8Len(line)
                 pos2   == pos + Len(line)
             IN  IF size2 >= max_size
                 THEN [lines |-> lines2, pos |-> pos2]
                 ELSE ReadBatch_nocap(data, pos2, count + 1, lines2, size2,
                                      max_size)

\* the inner loop: read lines into the batch until the end of the file, the
\* line ceiling, or the byte budget reached by the line just appended
RECURSIVE ReadBatch(_, _, _, _, _, _)
ReadBatch(data, pos, count, lines, current_size, max_size) ==
    IF count = BatchLines THEN [lines |-> lines, pos |-> pos]
    ELSE LET line == readline(data, pos)
         IN  IF line = <<>> THEN [lines |-> lines, pos |-> pos]
             ELSE LET lines2 == Append(lines, line)
                      size2  == current_size + Utf8Len(line)
                      pos2   == pos + Len(line)
                  IN  IF size2 >= max_size
                      THEN [lines |-> lines2, pos |-> pos2]
                      ELSE ReadBatch(data, pos2, count + 1, lines2, size2,
                                     max_size)

\* a variant with a slip: the partition index advances by two
RECURSIVE SplitParts_skip(_, _, _, _, _, _, _, _)
SplitParts_skip(fs, now, filename, data, pos, max_size, part_number, part_files) ==
    LET batch == ReadBatch(data, pos, 0, <<>>, 0, max_size)
    IN  IF batch.lines = <<>> THEN [ret |-> part_files, files |-> fs]
        ELSE LET part_filename == S_part \o Str(part_number) \o S_us
                                      \o filename
                 fs2 == WriteFile(fs, part_filename, writelines(batch.lines),
                                  now)
                 entry == FileEntry(part_filename,
                              format_file_size(getsize(fs2, part_filename)))
             IN  SplitParts_skip(fs2, now, filename, data, batch.pos,
                                 max_size, part_number + 2,
                                 Append(part_files, entry))

\* the outer loop: one partition file per non-empty batch
RECURSIVE SplitParts(_, _, _, _, _, _, _, _)
SplitParts(fs, now, filename, data, pos, max_size, part_number, part_files) ==
    LET batch == ReadBatch(data, pos, 0, <<>>, 0, max_size)
    IN  IF batch.lines = <<>> THEN [ret |-> part_files, files |-> fs]
        ELSE LET part_filename == S_part \o Str(part_number) \o S_us
                                      \o filename
                 fs2 == WriteFile(fs, part_filename, writelines(batch.lines),
                                  now)
                 entry == FileEntry(part_filename,
                              format_file_size(getsize(fs2, part_filename)))
             IN  SplitParts(fs2, now, filename, data, batch.pos, max_size,
                            part_number + 1, Append(part_files, entry))

\* variants with a slip: a file of exactly the limit is split; an empty file
\* is not passed through
split_file_for_download_lt(fs, now, filename, max_size_mb) ==
    IF filename \notin DOMAIN fs THEN [ret |-> <<>>, files |-> fs]
    ELSE IF getsize(fs, filename) < max_size_mb * BytesPerMB
    THEN [ret |-> <<FileEntry(filename,
                        format_file_size(getsize(fs, filename)))>>,
          files |-> fs]
    ELSE SplitParts(fs, now, filename, fs[filename].data, 1,
                    max_size_mb * BytesPerMB, 1, <<>>)

split_file_for_download_nonempty(fs, now, filename, max_size_mb) ==
    IF filename \notin DOMAIN fs THEN [ret |-> <<>>, files |-> fs]
    ELSE IF /\ getsize(fs, filename) > 0
            /\ getsize(fs, filename) <= max_size_mb * BytesPerMB
    THEN [ret |-> <<FileEntry(filename,
                        format_file_size(getsize(fs, filename)))>>,
          files |-> fs]
    ELSE SplitParts(fs, now, filename, fs[filename].data, 1,
                    max_size_mb * BytesPerMB, 1, <<>>)

\* the returned list and the download directory after the call
split_file_for_download(fs, now, filename, max_size_mb) ==
    IF filename \notin DOMAIN fs THEN [ret |-> <<>>, files |-> fs]
    ELSE IF getsize(fs, filename) <= max_size_mb * BytesPerMB
    THEN [ret |-> <<FileEntry(filename,
                        format_file_size(getsize(fs, filename)))>>,
          files |-> fs]
    ELSE SplitParts(fs, now, filename, fs[filename].data, 1,
                    max_size_mb * BytesPerMB, 1, <<>>)

(***************************************************************************)
(* FileManager.cleanup_expired_files                                       *)
(***************************************************************************)
\* os.remove, os.path.isfile (false for a directory and for a name that is
\* gone), os.path.getmtime
Remove(fs, name) == [n \in DOMAIN fs \ {name} |-> fs[n]]
isfile(fs, name) == name \in DOMAIN fs /\ fs[name].isfile
getmtime(fs, name) == fs[name].mtime

SecondsPerHour == 3600

\* what can happen to a listed entry while the sweep runs: nothing; another
\* actor removes it before the isfile test, between the isfile test and the
\* getmtime call, or between the getmtime call and os.remove; os.remove is
\* refused (permission denied)
SweepEvents ==
    {"none", "gone_before_isfile", "gone_before_getmtime",
     "gone_before_remove", "denied"}

GoneEvents ==
    {"gone_before_isfile", "gone_before_getmtime", "gone_before_remove"}

\* a variant with a slip: a file of exactly the expiry age is removed
RECURSIVE SweepFrom_ge(_, _, _, _, _, _, _)
SweepFrom_ge(fs, listing, i, current_time, expire_seconds, events, deleted_count) ==
    IF i > Len(listing)
    THEN [files |-> fs, ret |-> deleted_count, raised |-> FALSE]
    ELSE LET filename == listing[i]
             ev  == events[filename]
             fs1 == IF ev = "gone_before_isfile" THEN Remove(fs, filename)
                    ELSE fs
         IN  IF ~ isfile(fs1, filename)
             THEN SweepFrom_ge(fs1, listing, i + 1, current_time,
                               expire_seconds, events, deleted_count)
             ELSE IF ev = "gone_before_getmtime"
             THEN [files |-> Remove(fs1, filename), ret |-> deleted_count,
                   raised |-> TRUE]
             ELSE IF current_time - getmtime(fs1, filename) >= expire_seconds
             THEN IF ev = "gone_before_remove"
                  THEN SweepFrom_ge(Remove(fs1, filename), listing, i + 1,
                                    current_time, expire_seconds, events,
                                    deleted_count)
                  ELSE IF ev = "denied"
                  THEN SweepFrom_ge(fs1, listing, i + 1, current_time,
                                    expire_seconds, events, deleted_count)
                  ELSE SweepFrom_ge(Remove(fs1, filename), listing, i + 1,
                                    current_time, expire_seconds, events,
                                    deleted_count + 1)
             ELSE SweepFrom_ge(IF ev = "gone_before_remove"
                               THEN Remove(fs1, filename) ELSE fs1,
                               listing, i + 1, current_time, expire_seconds,
                               events, deleted_count)

\* the loop over os.listdir from its i-th entry: isfile and getmtime are
\* outside the try (an OSError of getmtime leaves the function), os.remove
\* and the count are inside it (its exception is passed over)
RECURSIVE SweepFrom(_, _, _, _, _, _, _)
SweepFrom(fs, listing, i, current_time, expire_seconds, events, deleted_count) ==
    IF i > Len(listing)
    THEN [files |-> fs, ret |-> deleted_count, raised |-> FALSE]
    ELSE LET filename == listing[i]
             ev  == events[filename]
             fs1 == IF ev = "gone_before_isfile" THEN Remove(fs, filename)
                    ELSE fs
         IN  IF ~ isfile(fs1, filename)
             THEN SweepFrom(fs1, listing, i + 1, current_time,
                            expire_seconds, events, deleted_count)
             ELSE IF ev = "gone_before_getmtime"
             THEN [files |-> Remove(fs1, filename), ret |-> deleted_count,
                   raised |-> TRUE]
             ELSE IF current_time - getmtime(fs1, filename) > expire_seconds
             THEN IF ev = "gone_before_remove"
                  THEN SweepFrom(Remove(fs1, filename), listing, i + 1,
                                 current_time, expire_seconds, events,
                                 deleted_count)
                  ELSE IF ev = "denied"
                  THEN SweepFrom(fs1, listing, i + 1, current_time,
                                 expire_seconds, events, deleted_count)
                  ELSE SweepFrom(Remove(fs1, filename), listing, i + 1,
                                 current_time, expire_seconds, events,
                                 deleted_count + 1)
             ELSE SweepFrom(IF ev = "gone_before_remove"
                            THEN Remove(fs1, filename) ELSE fs1,
                            listing, i + 1, current_time, expire_seconds,
                            events, deleted_count)

\* the directory after the sweep, the returned count, and whether an
\* exception left the function; listing is the order of os.listdir
cleanup_expired_files(fs, now, expire_hours, listing, events) ==
    SweepFrom(fs, listing, 1, now, expire_hours * SecondsPerHour, events, 0)

(***************************************************************************)
(* Config._get_default_config: the generator and download sections         *)
(***************************************************************************)
DefaultMaxCount == 10000000
DefaultFileSizeLimit == 20
DefaultExpireHours == 24

DefaultConfig ==
    [max_count |-> DefaultMaxCount, file_size_limit |-> DefaultFileSizeLimit,
     expire_hours |-> DefaultExpireHours]

(***************************************************************************)
(* Inputs.                                                                 *)
(***************************************************************************)
\* "138"; "0755", "0010"; "GD"; "SZ"; "0000", "1234"; "567"
Prefixes == {<<49, 51, 56>>}
Suffixes == {<<48, 55, 53, 53>>, <<48, 48, 49, 48>>}
Provinces == {<<71, 68>>}
Cities == {<<83, 90>>}
Operators == {1, 2}
Suffix4s == {None, <<48, 48, 48, 48>>, <<49, 50, 51, 52>>}
Suffix3s == {None, <<53, 54, 55>>}
OperatorArgs == {None, <<1>>}

Rows == [prefix : Prefixes, suffix : Suffixes, province : Provinces,
         city : Cities, operator : Operators]

Tables == UNION {[1..n -> Rows] : n \in 0..MaxRows}

(***************************************************************************)
(* The generation engine on its own: a table, and one call of one of the   *)
(* two functions of NumberGenerator (they are pure: a call depends on the  *)
(* table and its arguments only).                                          *)
(***************************************************************************)
InitGen ==
    /\ db \in Tables
    /\ cfg = DefaultConfig
    /\ files = <<>>
    /\ clock = 0
    /\ nreq = 0
    /\ op = "none"
    /\ req = <<>>
    /\ res = <<>>
    /\ inflight = <<>>
    /\ session = <<>>

CallGenerateNumbers ==
    \E prefix \in Prefixes, suffix \in Suffix4s, suffix_3 \in Suffix3s,
       province \in Provinces, city \in Cities, operators \in OperatorArgs :
        /\ op = "none"
        /\ op' = "generate_numbers"
        /\ req' = [prefix |-> prefix, suffix |-> suffix, suffix_3 |-> suffix_3,
                   province |-> province, city |-> city,
                   operators |-> operators]
        /\ res' = generate_numbers(prefix, suffix, suffix_3, province, city,
                                   operators)
        /\ UNCHANGED <<db, cfg, files, clock, nreq, inflight, session>>

CallGenerateNumbersForLocation ==
    \E prefix \in Prefixes, suffix \in Suffixes, suffix_4 \in Suffix4s,
       suffix_3 \in Suffix3s :
        /\ op = "none"
        /\ op' = "generate_numbers_for_location"
        /\ req' = [prefix |-> prefix, suffix |-> suffix, suffix_4 |-> suffix_4,
                   suffix_3 |-> suffix_3]
        /\ res' = generate_numbers_for_location(prefix, suffix, suffix_4,
                                                suffix_3)
        /\ UNCHANGED <<db, cfg, files, clock, nreq, inflight, session>>

NextGen == CallGenerateNumbers \/ CallGenerateNumbersForLocation

SpecGen == InitGen /\ [][NextGen]_vars

(***************************************************************************)
(* Properties of the generation engine (checked under SpecGen).            *)
(***************************************************************************)
\* the segments the last call of generate_numbers matched
MatchedLocations ==
    query_phone_locations(req.prefix, req.province, req.city, req.operators)

\* the 4-digit block of n in 0..9999, digit by digit
Block4(n) == <<D(n \div 1000), D((n \div 100) % 10), D((n \div 10) % 10),
               D(n % 10)>>

\* C1: for every non-empty list of matched segments and every filter mode,
\* the list returned by generate_numbers is strictly ascending as digit
\* strings and holds no identifier twice.
C1_Ascending ==
    (op = "generate_numbers" /\ MatchedLocations # <<>>) =>
        /\ \A i \in 1..(Len(res) - 1) : StrLess(res[i], res[i + 1])
        /\ Cardinality({res[i] : i \in 1..Len(res)}) = Len(res)

\* two segments with different region codes, the larger first in the table,
\* fully expanded
C1_Witness ==
    /\ op = "generate_numbers"
    /\ Len(MatchedLocations) = 2
    /\ StrLess(MatchedLocations[2].suffix, MatchedLocations[1].suffix)
    /\ ~Truthy(req.suffix) /\ ~Truthy(req.suffix_3)
    /\ Len(res) = 20000

\* C2: when two distinct matched segments have the same prefix+suffix and no
\* exact suffix is requested, generate_numbers returns exactly 10,000
\* identifiers, not 20,000.
C2_Dedup ==
    (/\ op = "generate_numbers"
     /\ ~Truthy(req.suffix) /\ ~Truthy(req.suffix_3)
     /\ Len(MatchedLocations) = 2
     /\ MatchedLocations[1] # MatchedLocations[2]
     /\ MatchedLocations[1].suffix = MatchedLocations[2].suffix) =>
        Len(res) = 10000

C2_Witness ==
    /\ op = "generate_numbers"
    /\ ~Truthy(req.suffix) /\ ~Truthy(req.suffix_3)
    /\ Len(MatchedLocations) = 2
    /\ MatchedLocations[1].operator # MatchedLocations[2].operator
    /\ MatchedLocations[1].suffix = MatchedLocations[2].suffix
    /\ Len(res) = 10000

\* C3: with no exact suffix, _generate_numbers_for_location returns exactly
\* 10,000 distinct identifiers in ascending order, the i-th being prefix +
\* suffix + the 4-digit zero-padded block of i-1, so the blocks cover 0000
\* through 9999 with no gap and no repeat.
C3_FullExpansion ==
    (/\ op = "generate_numbers_for_location"
     /\ ~Truthy(req.suffix_4) /\ ~Truthy(req.suffix_3)) =>
        /\ Len(res) = 10000
        /\ \A i \in 1..Len(res) :
               res[i] = req.prefix \o req.suffix \o Block4(i - 1)
        /\ \A i \in 1..(Len(res) - 1) : StrLess(res[i], res[i + 1])

C3_Witness ==
    /\ op = "generate_numbers_for_location"
    /\ ~Truthy(req.suffix_4) /\ ~Truthy(req.suffix_3)
    /\ Len(res) = 10000
    /\ res[1] = req.prefix \o req.suffix \o <<48, 48, 48, 48>>
    /\ res[43] = req.prefix \o req.suffix \o <<48, 48, 52, 50>>
    /\ res[10000] = req.prefix \o req.suffix \o <<57, 57, 57, 57>>

\* C4: when an exact 4-digit suffix is present, the expansion of one segment
\* is exactly one identifier, prefix + suffix + exact4, for every value of
\* exact4 (0000 included), whether or not an exact 3-digit suffix is given.
C4_Exact4 ==
    (op = "generate_numbers_for_location" /\ req.suffix_4 # None) =>
        res = <<req.prefix \o req.suffix \o req.suffix_4>>

C4_Witness ==
    /\ op = "generate_numbers_for_location"
    /\ req.suffix_4 = <<48, 48, 48, 48>>
    /\ req.suffix_3 = <<53, 54, 55>>
    /\ Len(res) = 1
    /\ res[1] = req.prefix \o req.suffix \o <<48, 48, 48, 48>>

\* C5: when only an exact 3-digit suffix is present, the expansion of one
\* segment is exactly 10 identifiers, one per leading digit d in 0..9, each
\* prefix + suffix + d + exact3: they differ in their 8th digit only.
C5_Exact3 ==
    (/\ op = "generate_numbers_for_location"
     /\ req.suffix_4 = None /\ req.suffix_3 # None) =>
        /\ Len(res) = 10
        /\ \A d \in 0..9 :
               res[d + 1] = req.prefix \o req.suffix \o <<48 + d>>
                                \o req.suffix_3
        /\ \A i, j \in 1..Len(res) : \A k \in 1..11 :
               (k # 8 => res[i][k] = res[j][k])
                   /\ (k = 8 /\ i # j => res[i][k] # res[j][k])

C5_Witness ==
    /\ op = "generate_numbers_for_location"
    /\ req.suffix_4 = None /\ req.suffix_3 = <<53, 54, 55>>
    /\ Len(res) = 10
    /\ res[1][8] = 48 /\ res[10][8] = 57

(***************************************************************************)
(* The partitioner on its own: a download directory that holds one         *)
(* artifact of any content (or none), and calls of                         *)
(* split_file_for_download on it.                                          *)
(***************************************************************************)
\* "a.txt"
ArtifactName == <<97, 46, 116, 120, 116>>

\* "1\n", "1234\n", a line of one 3-byte character
LineSet == {<<49, NL>>, <<49, 50, 51, 52, NL>>, <<20013, NL>>}

\* the end of an artifact after its last newline: nothing, or a last line
\* without newline
TailSet == {<<>>, <<49, 50>>}

Artifacts ==
    {Cat(ls) \o tail :
        ls \in UNION {[1..n -> LineSet] : n \in 0..MaxLines}, tail \in TailSet}

SizeLimits == {1, 2}

\* artifacts as generate_to_file writes them: n identifiers of 11 digits,
\* one per line
MaxGenerated == 12
GeneratedLine(i) ==
    <<D(1), D(3), D(8), D(0), D(0), D(0), D(0)>> \o zfill(Str(i), 4) \o <<NL>>
GeneratedArtifacts ==
    {Cat([i \in 1..n |-> GeneratedLine(i)]) : n \in 1..MaxGenerated}

InitSplit ==
    /\ db = <<>>
    /\ cfg = DefaultConfig
    /\ \/ files = <<>>
       \/ \E data \in Artifacts \union GeneratedArtifacts :
              files = WriteFile(<<>>, ArtifactName, data, 0)
    /\ clock = 0
    /\ nreq = 0
    /\ op = "none"
    /\ req = <<>>
    /\ res = <<>>
    /\ inflight = <<>>
    /\ session = <<>>

CallSplit ==
    \E max_size_mb \in SizeLimits :
        LET r == split_file_for_download(files, clock, ArtifactName,
                                         max_size_mb)
        IN  /\ op' = "split_file_for_download"
            /\ req' = [filename |-> ArtifactName, max_size_mb |-> max_size_mb]
            /\ res' = r.ret
            /\ files' = r.files
            /\ UNCHANGED <<db, cfg, clock, nreq, inflight, session>>

NextSplit == CallSplit

SpecSplit == InitSplit /\ [][NextSplit]_vars

(***************************************************************************)
(* Properties of the partitioner (checked under SpecSplit).                *)
(***************************************************************************)
\* the lines of a text: each ends with its newline, but for a last line
\* that has none
RECURSIVE LinesOf(_)
LinesOf(text) ==
    IF text = <<>> THEN <<>>
    ELSE LET ends == {i \in 1..Len(text) : text[i] = NL \/ i = Len(text)}
             e == CHOOSE i \in ends : \A j \in ends : i <= j
         IN  <<SubSeq(text, 1, e)>> \o LinesOf(SubSeq(text, e + 1, Len(text)))

\* the last call was split_file_for_download on a file that exists
SplitCalled == op = "split_file_for_download" /\ req.filename \in DOMAIN files

\* the texts of the files the call listed, in the returned order
ListedTexts == [k \in 1..Len(res) |-> files[res[k].name].data]

\* C7: for any artifact and any size limit, the files listed by
\* split_file_for_download, concatenated in the returned order, reproduce
\* the source artifact: the same bytes, and the same line sequence, every
\* source line once, whole and in the original order.
C7_RoundTrip ==
    SplitCalled =>
        /\ \A k \in 1..Len(res) : res[k].name \in DOMAIN files
        /\ Cat(ListedTexts) = files[req.filename].data
        /\ Cat([k \in 1..Len(res) |-> LinesOf(ListedTexts[k])])
               = LinesOf(files[req.filename].data)

\* three partitions, of an artifact whose last line has no newline
C7_Witness ==
    /\ SplitCalled
    /\ Len(res) = 3
    /\ files[req.filename].data[Len(files[req.filename].data)] # NL
    /\ \E i \in 1..Len(files[req.filename].data) :
           files[req.filename].data[i] > 127

\* C8: every partition file written by split_file_for_download is smaller
\* than maxPartBytes plus the bytes of its own last line: before its last
\* line was appended the partition was below maxPartBytes.
C8_PartitionSize ==
    SplitCalled =>
        \A k \in 1..Len(res) :
            res[k].name # req.filename =>
                LET text  == files[res[k].name].data
                    lines == LinesOf(text)
                IN  /\ lines # <<>>
                    /\ Utf8Len(text) - Utf8Len(lines[Len(lines)])
                           < req.max_size_mb * BytesPerMB

\* a partition that is larger than maxPartBytes
C8_Witness ==
    /\ SplitCalled
    /\ \E k \in 1..Len(res) :
           /\ res[k].name # req.filename
           /\ Utf8Len(files[res[k].name].data)
                  > req.max_size_mb * BytesPerMB

\* C9: when the artifact's size is at most maxPartBytes (exactly equal
\* included), split_file_for_download returns exactly one entry, named as
\* the original file, and creates, renames or modifies no file of the
\* download directory.
C9_PassThrough ==
    [][(/\ op' = "split_file_for_download"
        /\ req'.filename \in DOMAIN files
        /\ Utf8Len(files[req'.filename].data)
               <= req'.max_size_mb * BytesPerMB) =>
           /\ Len(res') = 1
           /\ res'[1].name = req'.filename
           /\ files' = files]_vars

\* an artifact of exactly maxPartBytes, passed through
C9_Witness ==
    /\ SplitCalled
    /\ Utf8Len(files[req.filename].data) = req.max_size_mb * BytesPerMB
    /\ Len(res) = 1
    /\ res[1].name = req.filename
    /\ DOMAIN files = {req.filename}

\* C10 as stated: an existing artifact with zero lines yields zero
\* partitions.
C10_ZeroPartitions ==
    (SplitCalled /\ files[req.filename].data = <<>>) => res = <<>>

\* C10, amended: an existing artifact with zero lines is passed through
\* without error: the call returns exactly one entry, the original file
\* with size "0.00 B", and writes no partition file.
C10_EmptyPassThrough ==
    [][(/\ op' = "split_file_for_download"
        /\ req'.filename \in DOMAIN files
        /\ files[req'.filename].data = <<>>) =>
           /\ res' = <<[name |-> req'.filename,
                        size |-> <<48, 46, 48, 48, 32, 66>>,
                        url |-> S_download \o req'.filename]>>
           /\ files' = files]_vars

C10_Witness ==
    /\ SplitCalled
    /\ files[req.filename].data = <<>>
    /\ Len(res) = 1
    /\ DOMAIN files = {req.filename}

\* the decimal digits of a partition index (below 100)
IndexDigits(k) ==
    IF k < 10 THEN <<48 + k>> ELSE <<48 + (k \div 10), 48 + (k % 10)>>

\* the call split the artifact
SplitHappened ==
    /\ SplitCalled
    /\ Utf8Len(files[req.filename].data) > req.max_size_mb * BytesPerMB

\* C12: when a split happens, the k-th partition of the returned list is
\* named part_{k}_{originalName}: the index starts at 1 and goes up by
\* exactly 1 per partition, none skipped or reused within the call.
C12_PartNames ==
    SplitHappened =>
        \A k \in 1..Len(res) :
            res[k].name = <<112, 97, 114, 116, 95>> \o IndexDigits(k)
                              \o <<95>> \o req.filename

\* a split into at least eleven partitions
C12_Witness ==
    /\ SplitHappened
    /\ Len(res) >= 11
    /\ res[11].name \in DOMAIN files

\* C13: for any number of partitions produced from one artifact, sorting
\* the partition names as strings yields generation order: each partition's
\* name is below the name of every later one.
C13_NameOrder ==
    SplitHappened =>
        \A j \in 1..Len(res) : \A k \in 1..Len(res) :
            j < k => StrLess(res[j].name, res[k].name)

\* C22: during a split the two stopping bounds are independent and the one
\* that triggers first closes the partition: every partition but possibly
\* the last either reached maxPartBytes on its last line or holds exactly
\* the line ceiling (500,000 lines in the program); no partition holds more
\* lines than the ceiling and no partition is empty.
C22_TwoBounds ==
    SplitHappened =>
        \A k \in 1..Len(res) :
            LET text  == files[res[k].name].data
                lines == LinesOf(text)
            IN  /\ lines # <<>>
                /\ Len(lines) <= BatchLines
                /\ k < Len(res) =>
                       \/ /\ Utf8Len(text) >= req.max_size_mb * BytesPerMB
                          /\ Utf8Len(text) - Utf8Len(lines[Len(lines)])
                                 < req.max_size_mb * BytesPerMB
                       \/ Len(lines) = BatchLines

\* a partition closed by the line ceiling below maxPartBytes, followed by
\* another partition
C22_Witness ==
    /\ SplitHappened
    /\ Len(res) >= 2
    /\ Len(LinesOf(files[res[1].name].data)) = BatchLines
    /\ Utf8Len(files[res[1].name].data) < req.max_size_mb * BytesPerMB

(***************************************************************************)
(* The retention sweep on its own: a download directory of files and       *)
(* directories of several ages, and one call of cleanup_expired_files,     *)
(* during which other actors may remove entries and os.remove may be       *)
(* refused.                                                                *)
(***************************************************************************)
OtherName == <<98, 46, 116, 120, 116>>
DirName == <<100>>
SweepNames == {ArtifactName, OtherName, DirName}

SweepNow == SecondsPerHour + 1
SweepMtimes == {0, 1, SweepNow}
SweepExpireHours == {0, 1}

SweepEntry(name, mtime) ==
    IF name = DirName THEN [data |-> <<>>, mtime |-> mtime, isfile |-> FALSE]
    ELSE [data |-> <<49, NL>>, mtime |-> mtime, isfile |-> TRUE]

SweepStores ==
    UNION {{[n \in N |-> SweepEntry(n, m[n])] : m \in [N -> SweepMtimes]} :
           N \in SUBSET SweepNames}

\* the orders in which os.listdir may list a directory
Listings(fs) ==
    {l \in [1..Cardinality(DOMAIN fs) -> DOMAIN fs] :
        \A i \in DOMAIN l : \A j \in DOMAIN l : i # j => l[i] # l[j]}

InitSweep ==
    /\ db = <<>>
    /\ cfg \in {[DefaultConfig EXCEPT !.expire_hours = h] :
                    h \in SweepExpireHours}
    /\ files \in SweepStores
    /\ clock = SweepNow
    /\ nreq = 0
    /\ op = "none"
    /\ req = <<>>
    /\ res = <<>>
    /\ inflight = <<>>
    /\ session = <<>>

CallCleanup ==
    /\ op = "none"
    /\ \E listing \in Listings(files) :
       \E events \in [DOMAIN files -> SweepEvents] :
           LET r == cleanup_expired_files(files, clock, cfg.expire_hours,
                                          listing, events)
           IN  /\ op' = "cleanup_expired_files"
               /\ req' = [listing |-> listing, events |-> events]
               /\ res' = [ret |-> r.ret, raised |-> r.raised]
               /\ files' = r.files
               /\ UNCHANGED <<db, cfg, clock, nreq, inflight, session>>

NextSweep == CallCleanup

SpecSweep == InitSweep /\ [][NextSweep]_vars

(***************************************************************************)
(* Properties of the retention sweep (checked under SpecSweep).            *)
(***************************************************************************)
\* the regular files of the directory whose age strictly exceeds the expiry
\* threshold
Expired ==
    {n \in DOMAIN files :
        /\ files[n].isfile
        /\ clock - files[n].mtime > cfg.expire_hours * 3600}

\* C16: a sweep that meets no failure deletes and counts every regular file
\* directly in the download directory whose age (now - mtime) strictly
\* exceeds the expiry threshold, and leaves untouched every file whose age
\* is at or below the threshold and every entry that is not a regular file.
C16_Sweep ==
    [][(/\ op' = "cleanup_expired_files"
        /\ \A n \in DOMAIN req'.events : req'.events[n] = "none") =>
           /\ DOMAIN files' = DOMAIN files \ Expired
           /\ \A n \in DOMAIN files' : files'[n] = files[n]
           /\ res'.ret = Cardinality(Expired)
           /\ ~ res'.raised]_vars

\* a sweep without failures that removed a file and kept a file of exactly
\* the threshold age and a directory older than the threshold
C16_Witness ==
    /\ op = "cleanup_expired_files"
    /\ \A n \in DOMAIN req.events : req.events[n] = "none"
    /\ res.ret = 1
    /\ Len(req.listing) = 3
    /\ \E n \in DOMAIN files :
           /\ files[n].isfile
           /\ clock - files[n].mtime = cfg.expire_hours * 3600
    /\ \E n \in DOMAIN files :
           /\ ~ files[n].isfile
           /\ clock - files[n].mtime > cfg.expire_hours * 3600

\* C17: in cleanup_expired_files a failure on an individual file
\* (permission denied, or the file removed by another actor at any point
\* after it was listed) never aborts the sweep: no exception leaves the
\* function, every remaining entry is still examined (an expired file that
\* nothing interferes with is removed), and the returned count is the
\* number of files this sweep removed itself.
C17_NoAbort ==
    [][op' = "cleanup_expired_files" =>
           /\ ~ res'.raised
           /\ \A n \in Expired :
                  req'.events[n] = "none" => n \notin DOMAIN files'
           /\ res'.ret =
                  Cardinality({n \in DOMAIN files \ DOMAIN files' :
                                  req'.events[n] \notin GoneEvents})]_vars

(***************************************************************************)
(* The web application: the /api/generate handler on a table, a            *)
(* configuration and the download directory.                               *)
(***************************************************************************)
\* JSON values of a request body: a string, a number, null, or no such key
JStr(s) == [t |-> "str", v |-> s]
JInt(n) == [t |-> "int", v |-> <<n>>]
JNull == [t |-> "null", v |-> <<>>]
JMissing == [t |-> "missing", v |-> <<>>]

\* data.get(key, default) and data.get(key)
Get(data, key, default) ==
    IF data[key].t = "missing" THEN default ELSE data[key]

\* str(x) of a JSON value (numbers are non-negative integers here)
S_None == <<78, 111, 110, 101>>
PyStr(j) ==
    IF j.t = "str" THEN j.v
    ELSE IF j.t = "int" THEN Str(j.v[1])
    ELSE S_None

\* Python truth of a JSON value
JTruthy(j) ==
    IF j.t = "str" THEN j.v # <<>>
    ELSE IF j.t = "int" THEN j.v[1] # 0
    ELSE FALSE

\* str.strip(): white space removed at both ends (the white space
\* characters below 256)
Whitespace == {9, 10, 11, 12, 13, 28, 29, 30, 31, 32, 133, 160}

RECURSIVE LStrip(_)
LStrip(s) ==
    IF s # <<>> /\ Head(s) \in Whitespace THEN LStrip(Tail(s)) ELSE s

RECURSIVE RStrip(_)
RStrip(s) ==
    IF s # <<>> /\ s[Len(s)] \in Whitespace
    THEN RStrip(SubSeq(s, 1, Len(s) - 1)) ELSE s

Strip(s) == RStrip(LStrip(s))

\* str.isdigit(): not empty, and every character a digit: the decimal
\* digits of any script and the superscript digits (those below 2048)
IsDigitChar(c) ==
    c \in DigitChars \cup {178, 179, 185} \cup (1632..1641) \cup (1776..1785)
        \cup (1984..1993)

isdigit(s) == s # <<>> /\ \A i \in 1..Len(s) : IsDigitChar(s[i])

(***************************************************************************)
(* validate_input: TRUE when the body is accepted                          *)
(***************************************************************************)
ValidOperators == {1, 2, 3, 4, 5}

\* the suffix as validate_input sees it: stripped when it is a non-empty
\* str, "" otherwise
ValidatedSuffix(raw) ==
    IF JTruthy(raw) /\ raw.t = "str" THEN Strip(raw.v) ELSE <<>>

validate_input(data) ==
    LET prefix   == Strip(PyStr(Get(data, "prefix", JStr(<<>>))))
        province == Strip(PyStr(Get(data, "province", JStr(<<>>))))
        city     == Strip(PyStr(Get(data, "city", JStr(<<>>))))
        suffix_4 == ValidatedSuffix(Get(data, "suffix_4", JNull))
        suffix_3 == ValidatedSuffix(Get(data, "suffix_3", JNull))
    IN  /\ prefix # <<>>
        /\ Len(prefix) = 3 /\ isdigit(prefix)
        /\ province # <<>>
        /\ city # <<>>
        /\ ~(suffix_4 # <<>> /\ suffix_3 # <<>>)
        /\ (suffix_4 # <<>> => Len(suffix_4) = 4 /\ isdigit(suffix_4))
        /\ (suffix_3 # <<>> => Len(suffix_3) = 3 /\ isdigit(suffix_3))
        /\ \A i \in 1..Len(data.operators) :
               data.operators[i] \in ValidOperators

(***************************************************************************)
(* generate_filename                                                       *)
(***************************************************************************)
\* datetime.now().strftime('%Y%m%d_%H%M%S') at second now of the day the
\* server runs ("20260101")
S_day == <<50, 48, 50, 54, 48, 49, 48, 49>>

Timestamp(now) ==
    S_day \o S_us \o zfill(Str(now \div 3600), 2)
          \o zfill(Str((now \div 60) % 60), 2) \o zfill(Str(now % 60), 2)

\* s.replace('/', '_').replace('\\', '_')
CleanName(s) ==
    [i \in 1..Len(s) |-> IF s[i] \in {47, 92} THEN 95 ELSE s[i]]

\* ".", "txt"
S_dot == <<46>>
S_txt == <<116, 120, 116>>

generate_filename(prefix, province, city, suffix, now) ==
    prefix \o S_us \o CleanName(province) \o S_us \o CleanName(city) \o S_us
           \o suffix \o S_us \o Timestamp(now) \o S_dot \o S_txt

(***************************************************************************)
(* NumberGenerator.generate_to_file: one line per number                   *)
(***************************************************************************)
\* a variant with a slip: the numbers are written without their newline
RECURSIVE WrittenRange_nonl(_, _, _)
WrittenRange_nonl(numbers, lo, hi) ==
    IF lo > hi THEN <<>>
    ELSE IF lo = hi THEN numbers[lo]
    ELSE LET mid == (lo + hi) \div 2
         IN  WrittenRange_nonl(numbers, lo, mid)
                 \o WrittenRange_nonl(numbers, mid + 1, hi)

\* the text of f.write(number + '\n') for the numbers lo..hi, by halves
RECURSIVE WrittenRange(_, _, _)
WrittenRange(numbers, lo, hi) ==
    IF lo > hi THEN <<>>
    ELSE IF lo = hi THEN numbers[lo] \o <<NL>>
    ELSE LET mid == (lo + hi) \div 2
         IN  WrittenRange(numbers, lo, mid) \o WrittenRange(numbers, mid + 1, hi)

WrittenText(numbers) == WrittenRange(numbers, 1, Len(numbers))

generate_to_file(fs, now, numbers, filename) ==
    WriteFile(fs, filename, WrittenText(numbers), now)

(***************************************************************************)
(* api_generate: the response and the download directory after the request *)
(***************************************************************************)
\* "ALL"
S_ALL == <<65, 76, 76>>

\* the default of split_file_for_download's max_size_mb
DefaultMaxSizeMb == 20

\* x or None
OrNone(x) == IF x # <<>> THEN x ELSE None

\* the suffix as api_generate extracts it
ExtractedSuffix(raw) ==
    IF JTruthy(raw) /\ Strip(PyStr(raw)) # <<>> THEN Strip(PyStr(raw))
    ELSE <<>>

Response(code, outcome, count, listed) ==
    [code |-> code, outcome |-> outcome, count |-> count, files |-> listed]

\* a variant with a slip: the artifact is created before the count is
\* compared with max_count, and left empty when the count is over it
api_generate_late(fs, now, data) ==
    IF ~validate_input(data)
    THEN [resp |-> Response(400, "invalid", 0, <<>>), files |-> fs]
    ELSE
    LET prefix   == Strip(PyStr(Get(data, "prefix", JStr(<<>>))))
        suffix_4 == ExtractedSuffix(Get(data, "suffix_4", JNull))
        suffix_3 == ExtractedSuffix(Get(data, "suffix_3", JNull))
        province == Strip(PyStr(Get(data, "province", JStr(<<>>))))
        city     == Strip(PyStr(Get(data, "city", JStr(<<>>))))
        numbers  == generate_numbers(prefix, OrNone(suffix_4),
                        OrNone(suffix_3), province, city,
                        OrNone(data.operators))
    IN  IF numbers = <<>>
        THEN [resp |-> Response(404, "no_matches", 0, <<>>), files |-> fs]
        ELSE
        LET suffix   == IF suffix_4 # <<>> THEN suffix_4
                        ELSE IF suffix_3 # <<>> THEN suffix_3 ELSE S_ALL
            filename == generate_filename(prefix, province, city, suffix, now)
            fs2      == generate_to_file(fs, now, numbers, filename)
            size     == getsize(fs2, filename)
        IN  IF Len(numbers) > cfg.max_count
            THEN [resp |-> Response(400, "over_capacity", 0, <<>>),
                  files |-> generate_to_file(fs, now, <<>>, filename)]
            ELSE IF size > cfg.file_size_limit * BytesPerMB
            THEN LET r == split_file_for_download(fs2, now, filename,
                                                  DefaultMaxSizeMb)
                 IN  [resp |-> Response(200, "ok", Len(numbers), r.ret),
                      files |-> r.files]
            ELSE [resp |-> Response(200, "ok", Len(numbers),
                               <<FileEntry(filename, format_file_size(size))>>),
                  files |-> fs2]

\* a variant with a slip: an empty result is not told from a result
api_generate_write_nocheck(fs, now, data) ==
    IF ~validate_input(data)
    THEN [resp |-> Response(400, "invalid", 0, <<>>), files |-> fs,
          filename |-> <<>>, count |-> 0, size_str |-> <<>>]
    ELSE
    LET prefix   == Strip(PyStr(Get(data, "prefix", JStr(<<>>))))
        suffix_4 == ExtractedSuffix(Get(data, "suffix_4", JNull))
        suffix_3 == ExtractedSuffix(Get(data, "suffix_3", JNull))
        province == Strip(PyStr(Get(data, "province", JStr(<<>>))))
        city     == Strip(PyStr(Get(data, "city", JStr(<<>>))))
        numbers  == generate_numbers(prefix, OrNone(suffix_4),
                        OrNone(suffix_3), province, city,
                        OrNone(data.operators))
    IN  IF Len(numbers) > cfg.max_count
        THEN [resp |-> Response(400, "over_capacity", 0, <<>>), files |-> fs,
              filename |-> <<>>, count |-> 0, size_str |-> <<>>]
        ELSE
        LET suffix   == IF suffix_4 # <<>> THEN suffix_4
                        ELSE IF suffix_3 # <<>> THEN suffix_3 ELSE S_ALL
            filename == generate_filename(prefix, province, city, suffix, now)
            fs2      == generate_to_file(fs, now, numbers, filename)
        IN  [resp |-> <<>>, files |-> fs2, filename |-> filename,
             count |-> Len(numbers),
             size_str |-> format_file_size(getsize(fs2, filename))]

\* lines 737-790 of the handler: validation, generation, the no-match and
\* capacity answers, the file name and the write; resp is <<>> while the
\* request goes on
api_generate_write(fs, now, data) ==
    IF ~validate_input(data)
    THEN [resp |-> Response(400, "invalid", 0, <<>>), files |-> fs,
          filename |-> <<>>, count |-> 0, size_str |-> <<>>]
    ELSE
    LET prefix   == Strip(PyStr(Get(data, "prefix", JStr(<<>>))))
        suffix_4 == ExtractedSuffix(Get(data, "suffix_4", JNull))
        suffix_3 == ExtractedSuffix(Get(data, "suffix_3", JNull))
        province == Strip(PyStr(Get(data, "province", JStr(<<>>))))
        city     == Strip(PyStr(Get(data, "city", JStr(<<>>))))
        numbers  == generate_numbers(prefix, OrNone(suffix_4),
                        OrNone(suffix_3), province, city,
                        OrNone(data.operators))
    IN  IF numbers = <<>>
        THEN [resp |-> Response(404, "no_matches", 0, <<>>), files |-> fs,
              filename |-> <<>>, count |-> 0, size_str |-> <<>>]
        ELSE IF Len(numbers) > cfg.max_count
        THEN [resp |-> Response(400, "over_capacity", 0, <<>>), files |-> fs,
              filename |-> <<>>, count |-> 0, size_str |-> <<>>]
        ELSE
        LET suffix   == IF suffix_4 # <<>> THEN suffix_4
                        ELSE IF suffix_3 # <<>> THEN suffix_3 ELSE S_ALL
            filename == generate_filename(prefix, province, city, suffix, now)
            fs2      == generate_to_file(fs, now, numbers, filename)
        IN  [resp |-> <<>>, files |-> fs2, filename |-> filename,
             count |-> Len(numbers),
             size_str |-> format_file_size(getsize(fs2, filename))]

\* lines 793-796: os.path.getsize of the artifact (it raises when the file
\* is gone, and the handler's except answers 500) and the comparison with
\* the configured limit
api_generate_size(fs, w) ==
    IF w.filename \notin DOMAIN fs THEN "failed"
    ELSE IF getsize(fs, w.filename) > cfg.file_size_limit * BytesPerMB
    THEN "split"
    ELSE "single"

\* lines 798-813: the split, called without a limit, and the answer
api_generate_split(fs, now, w) ==
    LET r == split_file_for_download(fs, now, w.filename, DefaultMaxSizeMb)
    IN  [resp |-> Response(200, "ok", w.count, r.ret), files |-> r.files]

\* lines 800-813: the answer that lists the artifact itself
api_generate_single(w) ==
    Response(200, "ok", w.count, <<FileEntry(w.filename, w.size_str)>>)

\* the handler as one request served alone
api_generate(fs, now, data) ==
    LET w == api_generate_write(fs, now, data)
    IN  IF w.resp # <<>> THEN [resp |-> w.resp, files |-> w.files]
        ELSE LET branch == api_generate_size(w.files, w)
             IN  IF branch = "failed"
                 THEN [resp |-> Response(500, "failed", 0, <<>>),
                       files |-> w.files]
                 ELSE IF branch = "split"
                 THEN api_generate_split(w.files, now, w)
                 ELSE [resp |-> api_generate_single(w), files |-> w.files]

(***************************************************************************)
(* The requests of the model.                                              *)
(***************************************************************************)
Body(prefix, suffix_4, suffix_3, operators) ==
    [prefix |-> prefix, province |-> JStr(<<71, 68>>),
     city |-> JStr(<<83, 90>>), suffix_4 |-> suffix_4, suffix_3 |-> suffix_3,
     operators |-> operators]

\* "138", "139", "13 "; "0000", "1234"; "567"
P138 == JStr(<<49, 51, 56>>)
P139 == JStr(<<49, 51, 57>>)
P13 == JStr(<<49, 51, SP>>)
X0000 == JStr(<<48, 48, 48, 48>>)
X1234 == JStr(<<49, 50, 51, 52>>)
X567 == JStr(<<53, 54, 55>>)

\* the requests that carry an exact suffix (or are rejected), and the
\* request for the full expansion
Bodies ==
    ({Body(P138, s4, s3, <<>>) :
        s4 \in {JNull, X0000, X1234, JInt(1234)}, s3 \in {JNull, X567}}
            \ {Body(P138, JNull, JNull, <<>>)})
      \cup {Body(P138, JNull, X567, <<1>>), Body(P138, JNull, X567, <<9>>),
            Body(P139, JNull, X567, <<>>), Body(P13, JNull, X567, <<>>),
            Body(P138, JMissing, JStr(<<SP, 53, 54, 55>>), <<>>)}

FullBody == Body(P138, JNull, JNull, <<>>)

\* generator.max_count and generator.file_size_limit of config.yaml
Configs ==
    {[max_count |-> 15, file_size_limit |-> 20,
      expire_hours |-> DefaultExpireHours],
     [max_count |-> 100, file_size_limit |-> 10,
      expire_hours |-> DefaultExpireHours]}

Init ==
    /\ db \in Tables
    /\ cfg \in Configs
    /\ files = <<>>
    /\ clock = 0
    /\ nreq = 0
    /\ op = "none"
    /\ req = <<>>
    /\ res = <<>>
    /\ inflight = <<>>
    /\ session = <<>>

Handle(data) ==
    /\ nreq < MaxRequests
    /\ \E r \in {api_generate(files, clock, data)} :
        /\ nreq' = nreq + 1
        /\ op' = "api_generate"
        /\ req' = data
        /\ res' = r.resp
        /\ files' = r.files
        /\ UNCHANGED <<db, cfg, clock, inflight, session>>

\* a request that carries an exact suffix, or is rejected
ApiGenerate == \E data \in Bodies : Handle(data)

\* a request for the full expansion.  Its outcome depends on the table and
\* the configuration only, which never change, so it is taken as the first
\* request.
ApiGenerateFull == nreq = 0 /\ clock = 0 /\ Handle(FullBody)

Tick ==
    /\ clock < MaxClock
    /\ clock' = clock + 1
    /\ UNCHANGED <<db, cfg, files, nreq, op, req, res, inflight, session>>

Next == ApiGenerate \/ ApiGenerateFull \/ Tick

Spec == Init /\ [][Next]_vars

(***************************************************************************)
(* Properties of /api/generate (checked under Spec).                       *)
(***************************************************************************)
\* the segments a body matches
BodyLocations(data) ==
    query_phone_locations(Strip(PyStr(data.prefix)),
                          Strip(PyStr(data.province)), Strip(PyStr(data.city)),
                          OrNone(data.operators))

\* the identifiers one segment stands for under the body's exact suffixes:
\* 1 with an exact 4-digit suffix, 10 with an exact 3-digit suffix, 10,000
\* with neither
PerSegment(data) ==
    IF ExtractedSuffix(data.suffix_4) # <<>> THEN 1
    ELSE IF ExtractedSuffix(data.suffix_3) # <<>> THEN 10
    ELSE 10000

\* the identifiers of a body before and after the dedup: segments with the
\* same region code stand for the same identifiers, segments with different
\* region codes for different ones
PreDedupCount(data) == Len(BodyLocations(data)) * PerSegment(data)

PostDedupCount(data) ==
    Cardinality({BodyLocations(data)[i].suffix :
                     i \in 1..Len(BodyLocations(data))}) * PerSegment(data)

\* C6: in api_generate, whenever the deduplicated identifier count exceeds
\* max_count the request fails with the over-capacity outcome and the
\* request has created or written no file of the download directory; the
\* count compared with max_count is the count after the dedup (a request
\* whose count after the dedup is within max_count succeeds with that
\* count, whatever the count before the dedup).
C6_OverCapacity ==
    [][(op' = "api_generate" /\ nreq' = nreq + 1 /\ validate_input(req')) =>
           /\ PostDedupCount(req') > cfg.max_count =>
                  /\ res'.code = 400
                  /\ res'.outcome = "over_capacity"
                  /\ res'.files = <<>>
                  /\ files' = files
           /\ (PostDedupCount(req') > 0
                   /\ PostDedupCount(req') <= cfg.max_count) =>
                  /\ res'.outcome = "ok"
                  /\ res'.count = PostDedupCount(req')]_vars

\* a request for an exact 3-digit suffix on two segments with different
\* region codes: 20 identifiers, over a max_count of 15
C6_Witness ==
    /\ op = "api_generate"
    /\ validate_input(req)
    /\ PerSegment(req) = 10
    /\ PostDedupCount(req) = 20
    /\ cfg.max_count = 15
    /\ res.outcome = "over_capacity"
    /\ files = <<>>

\* a request that is over max_count before the dedup only
C6_WitnessDedup ==
    /\ op = "api_generate"
    /\ PreDedupCount(req) = 20
    /\ PostDedupCount(req) = 10
    /\ cfg.max_count = 15
    /\ res.outcome = "ok"
    /\ res.count = 10

(***************************************************************************)
(* _format_file_size on its own: one call on a byte count.  The byte       *)
(* counts are given by their base-1024 digits and go from 0 to beyond      *)
(* 1024 TB.                                                                *)
(***************************************************************************)
FmtLimbs == {0, 1, 2, 3, 128, 500, 1023}
FmtTopLimbs == {0, 2, 1024}
FmtSizes ==
    {<<a, b, c, d, e>> : a \in FmtLimbs, b \in FmtLimbs, c \in FmtLimbs,
                         d \in {0, 1, 1023}, e \in FmtTopLimbs}

InitFmt ==
    /\ db = <<>>
    /\ cfg = DefaultConfig
    /\ files = <<>>
    /\ clock = 0
    /\ nreq = 0
    /\ op = "none"
    /\ req = <<>>
    /\ res = <<>>
    /\ inflight = <<>>
    /\ session = <<>>

CallFormatFileSize ==
    /\ op = "none"
    /\ \E size \in FmtSizes :
           /\ op' = "_format_file_size"
           /\ req' = [size |-> size]
           /\ res' = format_file_size_of(size)
    /\ UNCHANGED <<db, cfg, files, clock, nreq, inflight, session>>

NextFmt == CallFormatFileSize

SpecFmt == InitFmt /\ [][NextFmt]_vars

(***************************************************************************)
(* Properties of _format_file_size (checked under SpecFmt).                *)
(***************************************************************************)
\* the byte count of the call is below 1024^j
Below1024Power(j) == \A i \in (j + 1)..Len(req.size) : req.size[i] = 0

\* the unit the claim names for the byte count of the call
ExpectedUnit ==
    IF Below1024Power(1) THEN <<66>>
    ELSE IF Below1024Power(2) THEN <<75, 66>>
    ELSE IF Below1024Power(3) THEN <<77, 66>>
    ELSE IF Below1024Power(4) THEN <<71, 66>>
    ELSE <<84, 66>>

\* digits, a point, two digits
IsFixed2(text) ==
    /\ Len(text) >= 4
    /\ text[Len(text) - 2] = 46
    /\ \A i \in 1..Len(text) : i # Len(text) - 2 => text[i] \in 48..57

\* C18: for every non-negative byte count, _format_file_size picks the
\* first unit among B, KB, MB, GB at which the value (the count divided by
\* 1024 once per preceding unit) is below 1024, and TB when the value is
\* still at least 1024 at GB; it never fails: it returns a number with two
\* decimals, a space and the unit (500 gives 500.00 B, 2048 gives 2.00 KB,
\* 3*1024*1024 gives 3.00 MB).
C18_Unit ==
    op = "_format_file_size" =>
        /\ \E n \in 4..(Len(res) - 2) :
               /\ IsFixed2(SubSeq(res, 1, n))
               /\ res[n + 1] = 32
               /\ SubSeq(res, n + 2, Len(res)) = ExpectedUnit
        /\ req.size = <<500, 0, 0, 0, 0>> =>
               res = <<53, 48, 48, 46, 48, 48, 32, 66>>
        /\ req.size = <<0, 2, 0, 0, 0>> =>
               res = <<50, 46, 48, 48, 32, 75, 66>>
        /\ req.size = <<0, 0, 3, 0, 0>> =>
               res = <<51, 46, 48, 48, 32, 77, 66>>

\* a byte count of 1024 TB or more, given in TB
C18_Witness ==
    /\ op = "_format_file_size"
    /\ req.size[5] >= 1024
    /\ req.size[1] = 500
    /\ SubSeq(res, Len(res) - 1, Len(res)) = <<84, 66>>

(***************************************************************************)
(* The web application serving requests concurrently: each /api/generate   *)
(* request is a thread that writes its artifact, then reads the artifact's *)
(* size, then splits it; between these steps other requests, a             *)
(* /api/cleanup request and the clock may act.                             *)
(***************************************************************************)
MaxProcs == 2
Procs == 1..MaxProcs

Idle ==
    [pc |-> "idle", data |-> <<>>, filename |-> <<>>, count |-> 0,
     size_str |-> <<>>, resp |-> <<>>]

ConcRow(suffix) ==
    [prefix |-> <<49, 51, 56>>, suffix |-> suffix, province |-> <<71, 68>>,
     city |-> <<83, 90>>, operator |-> 1]

ConcTable == <<ConcRow(<<48, 55, 53, 53>>), ConcRow(<<48, 48, 49, 48>>)>>

ConcBodies ==
    {Body(P138, JNull, X567, <<>>), Body(P138, X1234, JNull, <<>>),
     Body(P139, JNull, X567, <<>>)}

ConcConfigs ==
    {[max_count |-> 100, file_size_limit |-> 10, expire_hours |-> 0]}

InitConc ==
    /\ db = ConcTable
    /\ cfg \in ConcConfigs
    /\ files = <<>>
    /\ clock = 0
    /\ nreq = 0
    /\ op = "none"
    /\ req = <<>>
    /\ res = <<>>
    /\ inflight = [p \in Procs |-> Idle]
    /\ session = <<>>

\* a request arrives and runs up to the end of generate_to_file
GenWrite(p) ==
    /\ inflight[p].pc = "idle"
    /\ \E data \in ConcBodies :
           LET w == api_generate_write(files, clock, data)
           IN  /\ inflight' =
                      [inflight EXCEPT ![p] =
                          [pc |-> IF w.resp # <<>> THEN "done" ELSE "written",
                           data |-> data, filename |-> w.filename,
                           count |-> w.count, size_str |-> w.size_str,
                           resp |-> w.resp]]
               /\ files' = w.files
    /\ UNCHANGED <<db, cfg, clock, nreq, op, req, res, session>>

\* the request reads the size of its artifact and compares it with the limit
GenSize(p) ==
    /\ inflight[p].pc = "written"
    /\ LET branch == api_generate_size(files, inflight[p])
       IN  inflight' =
               [inflight EXCEPT ![p] =
                   IF branch = "failed"
                   THEN [inflight[p] EXCEPT
                            !.pc = "done",
                            !.resp = Response(500, "failed", 0, <<>>)]
                   ELSE IF branch = "split"
                   THEN [inflight[p] EXCEPT !.pc = "split"]
                   ELSE [inflight[p] EXCEPT
                            !.pc = "done",
                            !.resp = api_generate_single(inflight[p])]]
    /\ UNCHANGED <<db, cfg, files, clock, nreq, op, req, res, session>>

\* the request splits its artifact and answers
GenSplit(p) ==
    /\ inflight[p].pc = "split"
    /\ LET r == api_generate_split(files, clock, inflight[p])
       IN  /\ inflight' = [inflight EXCEPT ![p] =
                              [inflight[p] EXCEPT !.pc = "done",
                                                  !.resp = r.resp]]
           /\ files' = r.files
    /\ UNCHANGED <<db, cfg, clock, nreq, op, req, res, session>>

\* some order of os.listdir
RECURSIVE ListingOf(_)
ListingOf(names) ==
    IF names = {} THEN <<>>
    ELSE LET n == CHOOSE x \in names : TRUE
         IN  <<n>> \o ListingOf(names \ {n})

\* a /api/cleanup request: one sweep of the download directory
ApiCleanup ==
    /\ files # <<>>
    /\ LET r == cleanup_expired_files(files, clock, cfg.expire_hours,
                    ListingOf(DOMAIN files),
                    [n \in DOMAIN files |-> "none"])
       IN  files' = r.files
    /\ UNCHANGED <<db, cfg, clock, nreq, op, req, res, inflight, session>>

NextConc ==
    \/ \E p \in Procs : GenWrite(p)
    \/ \E p \in Procs : GenSize(p)
    \/ \E p \in Procs : GenSplit(p)
    \/ ApiCleanup
    \/ Tick

SpecConc == InitConc /\ [][NextConc]_vars

(***************************************************************************)
(* Properties of concurrent requests (checked under SpecConc).             *)
(***************************************************************************)
\* C14: if the source artifact cannot be opened (it no longer exists) when
\* split_file_for_download is called, the caller is told the operation
\* failed: api_generate does not answer success with an empty or truncated
\* partition list.
C14_SourceUnreadable ==
    [][\A p \in Procs :
         (/\ inflight[p].pc = "split"
          /\ inflight'[p].pc = "done"
          /\ inflight[p].filename \notin DOMAIN files) =>
             inflight'[p].resp.outcome # "ok"]_vars

\* C15: two generation requests served concurrently, in any interleaving
\* (the same filter parameters within the same clock second included),
\* never write to the same artifact file name.
C15_DistinctNames ==
    \A p \in Procs : \A q \in Procs :
        (/\ p # q
         /\ inflight[p].filename # <<>>
         /\ inflight[q].filename # <<>>) =>
            inflight[p].filename # inflight[q].filename

(***************************************************************************)
(* download_file: the /download/<filename> handler, as a thread that tests *)
(* os.path.exists and then calls send_file, with /api/cleanup requests     *)
(* acting before, between and after the two steps.                         *)
(***************************************************************************)
\* lines 838-844: the answer when os.path.exists fails, <<>> when it holds
download_file_exists(fs, filename) ==
    IF filename \notin DOMAIN fs THEN Response(404, "expired", 0, <<>>)
    ELSE <<>>

\* lines 846-851: send_file opens the path; for a path that is gone or is
\* not a regular file it raises an OSError, which no handler of the view
\* catches and the application's 500 handler answers (lines 904-913)
download_file_send(fs, filename) ==
    IF isfile(fs, filename) THEN Response(200, "sent", 0, <<>>)
    ELSE Response(500, "error", 0, <<>>)

DownloadProcs == {1}
DownloadNames == SweepNames

InitDownload ==
    /\ db = <<>>
    /\ cfg \in {[DefaultConfig EXCEPT !.expire_hours = h] :
                    h \in SweepExpireHours}
    /\ files \in SweepStores
    /\ clock = SweepNow
    /\ nreq = 0
    /\ op = "none"
    /\ req = <<>>
    /\ res = <<>>
    /\ inflight = [p \in DownloadProcs |-> Idle]
    /\ session = <<>>

\* a download request arrives and tests os.path.exists
DownloadExists(p) ==
    /\ inflight[p].pc = "idle"
    /\ \E filename \in DownloadNames :
           LET r == download_file_exists(files, filename)
           IN  inflight' =
                   [inflight EXCEPT ![p] =
                       [inflight[p] EXCEPT
                           !.pc = IF r # <<>> THEN "done" ELSE "exists",
                           !.filename = filename,
                           !.resp = r]]
    /\ UNCHANGED <<db, cfg, files, clock, nreq, op, req, res, session>>

\* the request calls send_file and answers
DownloadSend(p) ==
    /\ inflight[p].pc = "exists"
    /\ inflight' =
           [inflight EXCEPT ![p] =
               [inflight[p] EXCEPT
                   !.pc = "done",
                   !.resp = download_file_send(files, inflight[p].filename)]]
    /\ UNCHANGED <<db, cfg, files, clock, nreq, op, req, res, session>>

NextDownload ==
    \/ \E p \in DownloadProcs : DownloadExists(p)
    \/ \E p \in DownloadProcs : DownloadSend(p)
    \/ ApiCleanup

SpecDownload == InitDownload /\ [][NextDownload]_vars

(***************************************************************************)
(* Properties of downloads (checked under SpecDownload).                   *)
(***************************************************************************)
\* C21: a download request for an artifact that the retention sweep
\* removes, before the request starts or between its existence check and
\* the file being sent, ends in the artifact-expired (404) outcome, never in
\* an unhandled error: a request that ends while the file it names is not in
\* the download directory ends with "expired".
C21_Expired ==
    [][\A p \in DownloadProcs :
         (/\ inflight[p].pc # "done"
          /\ inflight'[p].pc = "done"
          /\ inflight'[p].filename \notin DOMAIN files') =>
             /\ inflight'[p].resp.code = 404
             /\ inflight'[p].resp.outcome = "expired"]_vars

(***************************************************************************)
(* DataImporter (final_import.py): import_data on a database file that is  *)
(* missing (NoDatabase) or holds the rows of phone_location, and a CSV     *)
(* file that is missing (NoCsv) or a sequence of lines.  Fields are        *)
(* separated by commas (no field of the model is quoted).                  *)
(***************************************************************************)
NoDatabase == <<[missing |-> TRUE]>>
NoCsv == <<None>>

\* the fields of a CSV line, as csv.reader splits it (an empty line has no
\* field)
RECURSIVE SplitFrom(_, _, _)
SplitFrom(line, i, field) ==
    IF i > Len(line) THEN <<field>>
    ELSE IF line[i] = 44 THEN <<field>> \o SplitFrom(line, i + 1, <<>>)
    ELSE SplitFrom(line, i + 1, Append(field, line[i]))

csv_reader_row(line) == IF line = <<>> THEN <<>> ELSE SplitFrom(line, 1, <<>>)

\* the INTEGER affinity of the operator column: a text of decimal digits is
\* stored as its number
RECURSIVE IntOf(_, _)
IntOf(text, acc) ==
    IF text = <<>> THEN acc
    ELSE IntOf(Tail(text), 10 * acc + (Head(text) - 48))

\* INSERT INTO phone_location (prefix, suffix, province, city, operator)
InsertedRow(row) ==
    [prefix |-> row[1], suffix |-> row[2], province |-> row[3],
     city |-> row[4], operator |-> IntOf(row[5], 0)]

\* the loop of _read_and_import_csv from the i-th line: a row of 5 fields is
\* inserted, any other row is skipped
RECURSIVE ImportRows(_, _, _)
ImportRows(d, lines, i) ==
    IF i > Len(lines) THEN d
    ELSE LET row == csv_reader_row(lines[i])
         IN  ImportRows(IF Len(row) = 5 THEN Append(d, InsertedRow(row))
                        ELSE d,
                        lines, i + 1)

\* _read_and_import_csv: a file without a header line fails; the first line
\* is skipped as the header
read_and_import_csv(d, csv) ==
    IF csv = <<>> THEN [ret |-> FALSE, db |-> d]
    ELSE [ret |-> TRUE, db |-> ImportRows(d, csv, 2)]

check_csv_exists(csv) == csv # NoCsv
check_db_exists(d) == d # NoDatabase

\* get_db_record_count: SELECT COUNT(*), and 0 when the database file is
\* missing or the query raises (count_fails: the database is locked by
\* another connection for longer than the timeout)
get_db_record_count(d, count_fails) ==
    IF ~check_db_exists(d) THEN 0
    ELSE IF count_fails THEN 0
    ELSE Len(d)

\* import_data: the returned flag and the database after the call.
\* connect_database creates a missing database file and create_table a
\* missing table; a forced import then deletes every row
import_data(d, csv, force, count_fails) ==
    IF ~check_csv_exists(csv) THEN [ret |-> FALSE, db |-> d]
    ELSE IF /\ ~force
            /\ check_db_exists(d)
            /\ get_db_record_count(d, count_fails) > 0
    THEN [ret |-> TRUE, db |-> d]
    ELSE LET connected == IF check_db_exists(d) THEN d ELSE <<>>
             cleared   == IF force THEN <<>> ELSE connected
         IN  read_and_import_csv(cleared, csv)

\* the lines of the CSV files of the model: a header, two data rows of 5
\* fields, a row of 2 fields and an empty line
CsvHeader == <<112, 44, 115, 44, 112, 44, 99, 44, 111>>
CsvRowA ==
    <<49, 51, 56, 44, 48, 55, 53, 53, 44, 71, 68, 44, 83, 90, 44, 49>>
CsvRowB ==
    <<49, 51, 56, 44, 48, 48, 49, 48, 44, 71, 68, 44, 83, 90, 44, 50>>
CsvShortRow == <<49, 51, 56, 44, 48, 55, 53, 53>>
CsvDataLines == {CsvRowA, CsvRowB, CsvShortRow, <<>>}

MaxCsvRows == 2
CsvFiles ==
    {NoCsv, <<>>}
        \cup {<<CsvHeader>> \o body :
                 body \in UNION {[1..n -> CsvDataLines] : n \in 0..MaxCsvRows}}

MaxImports == 2

InitImport ==
    /\ db \in {NoDatabase} \cup Tables
    /\ cfg = DefaultConfig
    /\ files = <<>>
    /\ clock = 0
    /\ nreq = 0
    /\ op = "none"
    /\ req = <<>>
    /\ res = <<>>
    /\ inflight = <<>>
    /\ session = <<>>

CallImportData ==
    /\ nreq < MaxImports
    /\ \E csv \in CsvFiles : \E force \in BOOLEAN : \E count_fails \in BOOLEAN :
           LET r == import_data(db, csv, force, count_fails)
           IN  /\ (count_fails => ~force /\ check_db_exists(db))
               /\ op' = "import_data"
               /\ req' = [csv |-> csv, force |-> force,
                          count_fails |-> count_fails]
               /\ res' = r.ret
               /\ db' = r.db
    /\ nreq' = nreq + 1
    /\ UNCHANGED <<cfg, files, clock, inflight, session>>

NextImport == CallImportData

SpecImport == InitImport /\ [][NextImport]_vars

(***************************************************************************)
(* Properties of the import (checked under SpecImport).                    *)
(***************************************************************************)
\* the data lines of 5 fields of a CSV file
FiveColumnRows(csv) ==
    Cardinality({i \in 2..Len(csv) :
        Cardinality({j \in 1..Len(csv[i]) : csv[i][j] = 44}) = 4})

\* C25: non-forced import_data is idempotent once data exists: if the
\* database file exists and phone_location holds at least one row,
\* import_data(force=False) returns success and inserts or deletes no row;
\* import_data(force=True) first clears the table, so after a successful
\* forced import the row count equals the number of 5-column CSV data rows.
C25_Idempotent ==
    [][op' = "import_data" /\ nreq' = nreq + 1 =>
           /\ (~req'.force /\ db # <<[missing |-> TRUE]>> /\ Len(db) >= 1) =>
                  (res' = TRUE /\ db' = db)
           /\ (req'.force /\ res' = TRUE) =>
                  Len(db') = FiveColumnRows(req'.csv)]_vars

(***************************************************************************)
(* Login: the users of the configuration, the session of each client, the  *)
(* login_required wrapper and the routes it protects.                      *)
(***************************************************************************)
\* config.py lines 282-299: some configured user has this username and
\* this password
validate_login(login, username, password) ==
    \E i \in DOMAIN login.users :
        /\ login.users[i].username = username
        /\ login.users[i].password = password

\* config.py lines 312-319
is_login_enabled(login) == login.enabled

\* a session without keys: session.get('logged_in') is None
EmptySession == [logged_in |-> FALSE, username |-> None]

\* a redirect to the named view
Redirect(view) == Response(302, view, 0, <<>>)

\* a variant with a slip: the wrapper does not look at the session
login_required_open(login, sess) == "body"

\* lines 497-515: whether the wrapper runs the view or redirects to the
\* login page
login_required(login, sess) ==
    IF ~is_login_enabled(login) THEN "body"
    ELSE IF ~sess.logged_in THEN "redirect"
    ELSE "body"

\* lines 620-636
login_page(login, sess) ==
    IF ~is_login_enabled(login) THEN Redirect("index_page")
    ELSE IF sess.logged_in THEN Redirect("index_page")
    ELSE Response(200, "login.html", 0, <<>>)

\* lines 639-670: the answer and the session after the request.  A missing
\* key reads as ''; .strip() of a value that is not a string raises, which
\* the application's 500 handler answers (lines 904-913).
api_login(login, sess, data) ==
    LET u == Get(data, "username", JStr(<<>>))
        p == Get(data, "password", JStr(<<>>))
    IN  IF u.t # "str" \/ p.t # "str"
        THEN [resp |-> Response(500, "error", 0, <<>>), session |-> sess]
        ELSE LET username == Strip(u.v)
                 password == Strip(p.v)
             IN  IF validate_login(login, username, password)
                 THEN [resp |-> Response(200, "index_page", 0, <<>>),
                       session |-> [logged_in |-> TRUE,
                                    username |-> username]]
                 ELSE [resp |-> Response(401, "rejected", 0, <<>>),
                       session |-> sess]

\* lines 673-681
api_logout(sess) ==
    [resp |-> Redirect("login_page"), session |-> EmptySession]

\* lines 606-618, 684-699, 702-716: the views that only read the table
index_page(d) ==
    Response(200, "index.html", 0,
             ListingOf({d[i].province : i \in DOMAIN d}))

api_provinces(d) ==
    Response(200, "provinces", 0,
             ListingOf({d[i].province : i \in DOMAIN d}))

api_cities(d, province) ==
    Response(200, "cities", 0,
             ListingOf({d[i].city : i \in {j \in DOMAIN d :
                                              d[j].province = province}}))

\* lines 823-851, as one request served alone
download_file(fs, filename) ==
    LET r == download_file_exists(fs, filename)
    IN  IF r # <<>> THEN r ELSE download_file_send(fs, filename)

\* lines 854-873, as one request served alone
api_cleanup(fs, now, expire_hours) ==
    LET r == cleanup_expired_files(fs, now, expire_hours,
                                   ListingOf(DOMAIN fs),
                                   [n \in DOMAIN fs |-> "none"])
    IN  [resp |-> Response(200, "cleaned", r.ret, <<>>), files |-> r.files]

\* "admin", "admin123", "bob", "pw"
S_admin == <<97, 100, 109, 105, 110>>
S_admin123 == <<97, 100, 109, 105, 110, 49, 50, 51>>
S_bob == <<98, 111, 98>>
S_pw == <<112, 119>>

\* login.users of config.yaml: the default user and a second one
LoginUsers ==
    <<[username |-> S_admin, password |-> S_admin123],
      [username |-> S_bob, password |-> S_pw]>>

MaxClients == 2
Clients == 1..MaxClients

\* the bodies of /api/login: right and wrong pairs, padded values, values
\* that are not strings and missing keys
LoginBodies ==
    [username : {JStr(S_admin), JStr(<<SP>> \o S_bob \o <<SP>>), JNull,
                 JMissing},
     password : {JStr(S_admin123), JStr(S_pw \o <<NL>>), JInt(1),
                 JMissing}]

AuthRow ==
    [prefix |-> <<49, 51, 56>>, suffix |-> <<48, 55, 53, 53>>,
     province |-> <<71, 68>>, city |-> <<83, 90>>, operator |-> 1]

AuthBody == Body(P138, X1234, JNull, <<>>)

InitAuth ==
    /\ db = <<AuthRow>>
    /\ cfg \in {[max_count |-> 100, file_size_limit |-> 10,
                 expire_hours |-> 1,
                 login |-> [enabled |-> e, users |-> LoginUsers]] :
                    e \in BOOLEAN}
    /\ files \in {<<>>, [n \in {ArtifactName} |-> SweepEntry(n, 0)]}
    /\ clock = SweepNow
    /\ nreq = 0
    /\ op = "none"
    /\ req = <<>>
    /\ res = <<>>
    /\ inflight = <<>>
    /\ session = [c \in Clients |-> EmptySession]

\* a request of client c to a view that login_required wraps: the view's
\* answer and directory when the wrapper runs it, a redirect otherwise
Protected(c, view, arg, r) ==
    /\ op' = view
    /\ req' = [client |-> c, arg |-> arg]
    /\ IF login_required(cfg.login, session[c]) = "body"
       THEN res' = r.resp /\ files' = r.files
       ELSE res' = Redirect("login_page") /\ files' = files
    /\ UNCHANGED <<db, cfg, clock, nreq, inflight, session>>

IndexPage(c) ==
    Protected(c, "index_page", <<>>,
              [resp |-> index_page(db), files |-> files])

ApiProvinces(c) ==
    Protected(c, "api_provinces", <<>>,
              [resp |-> api_provinces(db), files |-> files])

ApiCities(c) ==
    \E province \in Provinces :
        Protected(c, "api_cities", province,
                  [resp |-> api_cities(db, province), files |-> files])

AuthGenerate(c) ==
    Protected(c, "api_generate", AuthBody,
              api_generate(files, clock, AuthBody))

AuthDownload(c) ==
    \E filename \in DownloadNames :
        Protected(c, "download_file", filename,
                  [resp |-> download_file(files, filename),
                   files |-> files])

AuthCleanup(c) ==
    Protected(c, "api_cleanup", <<>>,
              api_cleanup(files, clock, cfg.expire_hours))

LoginPage(c) ==
    /\ op' = "login_page"
    /\ req' = [client |-> c, arg |-> <<>>]
    /\ res' = login_page(cfg.login, session[c])
    /\ UNCHANGED <<db, cfg, files, clock, nreq, inflight, session>>

ApiLogin(c) ==
    \E data \in LoginBodies :
        LET r == api_login(cfg.login, session[c], data)
        IN  /\ op' = "api_login"
            /\ req' = [client |-> c, arg |-> data]
            /\ res' = r.resp
            /\ session' = [session EXCEPT ![c] = r.session]
            /\ UNCHANGED <<db, cfg, files, clock, nreq, inflight>>

ApiLogout(c) ==
    LET r == api_logout(session[c])
    IN  /\ op' = "api_logout"
        /\ req' = [client |-> c, arg |-> <<>>]
        /\ res' = r.resp
        /\ session' = [session EXCEPT ![c] = r.session]
        /\ UNCHANGED <<db, cfg, files, clock, nreq, inflight>>

NextAuth ==
    \/ \E c \in Clients : IndexPage(c)
    \/ \E c \in Clients : ApiProvinces(c)
    \/ \E c \in Clients : ApiCities(c)
    \/ \E c \in Clients : AuthGenerate(c)
    \/ \E c \in Clients : AuthDownload(c)
    \/ \E c \in Clients : AuthCleanup(c)
    \/ \E c \in Clients : LoginPage(c)
    \/ \E c \in Clients : ApiLogin(c)
    \/ \E c \in Clients : ApiLogout(c)

SpecAuth == InitAuth /\ [][NextAuth]_vars

(***************************************************************************)
(* Properties of the login (checked under SpecAuth).                       *)
(***************************************************************************)
ProtectedViews ==
    {"index_page", "api_provinces", "api_cities", "api_generate",
     "download_file", "api_cleanup"}

\* the pair of a login body, as api_login reads it, is a configured user's
MatchesUser(data) ==
    /\ Get(data, "username", JStr(<<>>)).t = "str"
    /\ Get(data, "password", JStr(<<>>)).t = "str"
    /\ \E i \in DOMAIN cfg.login.users :
           /\ cfg.login.users[i].username =
                  Strip(Get(data, "username", JStr(<<>>)).v)
           /\ cfg.login.users[i].password =
                  Strip(Get(data, "password", JStr(<<>>)).v)

\* C24: with login enabled, a request to a protected view is answered by
\* the view exactly when the client's session is logged in, and by a
\* redirect to the login page, changing nothing, otherwise; a session
\* becomes logged in only by an api_login of that client whose pair is a
\* configured user's; api_logout leaves the session logged out; with login
\* disabled no protected view redirects.
C24_LoginGate ==
    [][/\ (op' \in ProtectedViews /\ cfg.login.enabled) =>
              IF session[req'.client].logged_in
              THEN res' # Redirect("login_page")
              ELSE res' = Redirect("login_page") /\ files' = files
       /\ (op' \in ProtectedViews /\ ~cfg.login.enabled) =>
              res' # Redirect("login_page")
       /\ \A c \in Clients :
              (~session[c].logged_in /\ session'[c].logged_in) =>
                  /\ op' = "api_login"
                  /\ req'.client = c
                  /\ MatchesUser(req'.arg)
                  /\ session'[c].username \in
                         {cfg.login.users[i].username :
                              i \in DOMAIN cfg.login.users}
       /\ op' = "api_logout" => session'[req'.client] = EmptySession
      ]_vars

\* a client that logged in and out again is redirected by a protected view
\* while the other client, logged in, was served
C24_Witness ==
    /\ cfg.login.enabled
    /\ op = "api_generate"
    /\ res = Redirect("login_page")
    /\ ~session[req.client].logged_in
    /\ \E c \in Clients : session[c].logged_in
    /\ files # <<>>

\* the identifiers generate_numbers returns for a body
BodyNumbers(data) ==
    generate_numbers(Strip(PyStr(data.prefix)),
                     OrNone(ExtractedSuffix(data.suffix_4)),
                     OrNone(ExtractedSuffix(data.suffix_3)),
                     Strip(PyStr(data.province)), Strip(PyStr(data.city)),
                     OrNone(data.operators))

\* C19: when the lookup resolves zero segments, generate_numbers returns an
\* empty result, and api_generate reports the no-matches outcome (404),
\* distinct from success (200) and from the generic generation-failed
\* outcome (500), and writes no artifact.
C19_NoMatches ==
    [][(/\ op' = "api_generate"
        /\ nreq' = nreq + 1
        /\ validate_input(req')
        /\ BodyLocations(req') = <<>>) =>
           /\ BodyNumbers(req') = <<>>
           /\ res'.code = 404
           /\ res'.outcome = "no_matches"
           /\ res'.code \notin {200, 500}
           /\ res'.outcome \notin {"ok", "failed"}
           /\ res'.files = <<>>
           /\ files' = files]_vars

\* a valid request whose prefix matches no row of a table that has rows
C19_Witness ==
    /\ op = "api_generate"
    /\ validate_input(req)
    /\ db # <<>>
    /\ BodyLocations(req) = <<>>
    /\ res.code = 404
    /\ files = <<>>

\* the lines of the files of the answer, in the returned order
ListedLines ==
    Cat([k \in 1..Len(res.files) |-> LinesOf(files[res.files[k].name].data)])

\* C20: generate_to_file writes exactly one line per element of the given
\* sequence, in the given order, each identifier followed by a single
\* newline, so the artifact has as many lines as identifiers, and the count
\* reported by api_generate equals the number of lines across the returned
\* files.
C20_LinesAndCount ==
    (op = "api_generate" /\ res.outcome = "ok") =>
        /\ \E f \in DOMAIN files :
               LinesOf(files[f].data) =
                   [i \in 1..Len(BodyNumbers(req)) |->
                       BodyNumbers(req)[i] \o <<10>>]
        /\ \A k \in 1..Len(res.files) : res.files[k].name \in DOMAIN files
        /\ res.count = Len(BodyNumbers(req))
        /\ res.count = Len(ListedLines)

\* a request answered with partitions: 20 identifiers in several files
C20_Witness ==
    /\ op = "api_generate"
    /\ res.outcome = "ok"
    /\ res.count = 20
    /\ Len(res.files) >= 2
    /\ Len(ListedLines) = 20

\* the exact suffixes api_generate passes to generate_numbers for the
\* body of the last request ("" stands for None)
PassedSuffix4 == ExtractedSuffix(Get(req, "suffix_4", JNull))
PassedSuffix3 == ExtractedSuffix(Get(req, "suffix_3", JNull))

\* C23: for every request body that validate_input accepts, the values
\* api_generate passes to generate_numbers satisfy the engine's
\* preconditions: at most one of the exact 4-digit and exact 3-digit
\* suffixes is set, a set exact4 is exactly 4 digits and a set exact3
\* exactly 3 digits, also when the suffix fields arrive as JSON numbers.
C23_Preconditions ==
    (op = "api_generate" /\ validate_input(req)) =>
        /\ ~(PassedSuffix4 # <<>> /\ PassedSuffix3 # <<>>)
        /\ PassedSuffix4 # <<>> =>
               /\ Len(PassedSuffix4) = 4
               /\ \A i \in 1..4 : PassedSuffix4[i] \in 48..57
        /\ PassedSuffix3 # <<>> =>
               /\ Len(PassedSuffix3) = 3
               /\ \A i \in 1..3 : PassedSuffix3[i] \in 48..57

\* the bytes of a text before its last line
BeforeLastLine(text) ==
    Utf8Len(text) - Utf8Len(LinesOf(text)[Len(LinesOf(text))])

\* C11: in api_generate, for every configured generator.file_size_limit,
\* the returned files are cut against that configured limit: no returned
\* file exceeds the configured limit by more than one line (before its last
\* line it was below the limit).
C11_ConfiguredLimit ==
    (op = "api_generate" /\ res.outcome = "ok") =>
        \A k \in 1..Len(res.files) :
            /\ res.files[k].name \in DOMAIN files
            /\ BeforeLastLine(files[res.files[k].name].data)
                   < cfg.file_size_limit * BytesPerMB

====
